---- MODULE Spec2Model ----
(***************************************************************************)
(* A model of screen/merge.py: merging of molecular structure fragments.   *)
(*                                                                         *)
(* Spec         merge_structures_from_matching_atoms with add_rca4, run on *)
(*              every pair of small input structures and match tuples.     *)
(* SpecArity    the same, with match tuples of unequal lengths.            *)
(* SpecMany     merge_many_filenames with the generators it drives.        *)
(* SpecEnantiomers  load_enantiomers, with coordinate arrays in a memory.  *)
(*                                                                         *)
(* A structure is a record: atoms (a sequence of atom identities, the      *)
(* position of an atom being its 1-based index), bonds (a set of records   *)
(* atom1 < atom2, order, property) and the two structure properties        *)
(* s_m_title and s_m_entry_name (sequences of strings, so that += is       *)
(* concatenation).  A bond property map is a function from the keys that   *)
(* are defined on the bond to integers; 0 is the falsy value.              *)
(***************************************************************************)
EXTENDS Integers, Sequences, FiniteSets, TLC

\* ------------------------------------------------------------------ bounds
MaxAtoms1 == 2
MaxAtoms2 == 3
MaxBonds2 == 2
MaxTagged == 1

VARIABLES
    struct_1,   \* first argument of merge_structures_from_matching_atoms
    match_1,    \* atom indices of the common atoms in struct_1
    struct_2,   \* second structure
    match_2,    \* atom indices of the common atoms in struct_2
    merge,      \* the local `merge`: the working structure (None before line 191)
    i,          \* 1-based position of the loop of line 208 in the zipped common atoms
    pc,         \* "start", "loop", "rca4", "title", "done" (returned), "raised"
    exc,        \* the exception that left the function, or NoExc
    \* merge_many_filenames and the generators it drives
    list_of_lists,  \* the argument: per group, the structures its files hold
    structures,     \* the list `structures` built from the first group
    new_structures, \* per later group, its list `new_structures`
    frames,         \* per later group, the suspended merge_many_structures generator
    lvl,            \* the generator that is running (0: none)
    pos,            \* how many elements of the list `structures` were taken
    result,         \* the list that list(structures) is building
    returned,       \* what merge_many_filenames returned
    calls,          \* history: the calls of get_overlapping_atoms_in_both that returned
    dpc,            \* "idle", "load", "list", "returned", "raised"
    dexc,           \* the exception that left merge_many_filenames, or NoExc
    \* load_enantiomers, step by step
    arrays,           \* the memory of coordinate arrays, by address
    structure,        \* the argument: an object that holds the address of its array
    other_enantiomer, \* the local of line 422 (None before)
    yielded,          \* the objects the generator has yielded
    input,            \* history: the argument's value when the generator was called
    epc               \* "idle", "start", "test", "copy", "invert", "yield", "stop"

mvars == <<struct_1, match_1, struct_2, match_2, merge, i, pc, exc>>
dvars == <<list_of_lists, structures, new_structures, frames, lvl, pos, result,
           returned, calls, dpc, dexc>>
evars == <<arrays, structure, other_enantiomer, yielded, input, epc>>
vars == <<mvars, dvars, evars>>

\* ------------------------------------------------------------ basic values
None == [none |-> TRUE]
NoExc == [type |-> "none", line |-> 0, diag |-> <<>>]

RCA4_1 == "i_cs_rca4_1"
RCA4_2 == "i_cs_rca4_2"
Keys == {RCA4_1, RCA4_2}

\* Python truthiness of an integer property value.
Truthy(v) == v # 0

Min(a, b) == IF a < b THEN a ELSE b

\* list.index(x): the position of the first occurrence (the caller checks x in seq).
ListIndex(seq, x) ==
    CHOOSE k \in 1..Len(seq) : seq[k] = x /\ \A j \in 1..(k - 1) : seq[j] # x

\* x in list
InList(seq, x) == \E k \in 1..Len(seq) : seq[k] = x

\* sum(cond(e) for e in seq), as a count over positions (duplicates count twice).
CountLess(seq, v) == Cardinality({k \in 1..Len(seq) : seq[k] < v})

Pairs(n) == {p \in (1..n) \X (1..n) : p[1] < p[2]}

Bond(a, b, o, pr) ==
    [atom1 |-> IF a < b THEN a ELSE b, atom2 |-> IF a < b THEN b ELSE a,
     order |-> o, property |-> pr]

\* Iteration order of a structure's bonds: by atom1, then atom2.
BondBefore(b, c) == b.atom1 < c.atom1 \/ (b.atom1 = c.atom1 /\ b.atom2 < c.atom2)

RECURSIVE BondSeq(_)
BondSeq(S) ==
    IF S = {} THEN <<>>
    ELSE LET b == CHOOSE x \in S : \A y \in S \ {x} : BondBefore(x, y)
         IN <<b>> \o BondSeq(S \ {b})

\* Structure.getBond(atom1, atom2): the bonds between the two atoms (empty: None).
GetBond(st, a, b) == {x \in st.bonds : {x.atom1, x.atom2} = {a, b} /\ a # b}

\* atom.bond: the bonds of one atom, in order of the neighbour's index.
AtomBonds(st, a) == BondSeq({x \in st.bonds : a \in {x.atom1, x.atom2}})

OtherEnd(b, a) == IF b.atom1 = a THEN b.atom2 ELSE b.atom1

\* atom1.addBond(atom2.index, order): a new bond with no property defined; an
\* existing bond between the two atoms has its order set.
AddBond(st, a, b, o) ==
    IF GetBond(st, a, b) = {}
    THEN [st EXCEPT !.bonds = @ \cup {Bond(a, b, o, <<>>)}]
    ELSE [st EXCEPT !.bonds =
             {IF {x.atom1, x.atom2} = {a, b} THEN [x EXCEPT !.order = o] ELSE x
                : x \in @}]

SetProperty(st, a, b, pr) ==
    [st EXCEPT !.bonds =
        {IF {x.atom1, x.atom2} = {a, b} THEN [x EXCEPT !.property = pr] ELSE x
           : x \in @}]

\* Results of a step that may raise.
Ok(st) == [ok |-> TRUE, st |-> st, exc |-> NoExc]
Raise(type, line, diag) ==
    [ok |-> FALSE, st |-> None, exc |-> [type |-> type, line |-> line, diag |-> diag]]

\* ------------------------------------------------- struct_1.merge(struct_2)
\* struct_2's atoms are appended after struct_1's, its bonds' indices offset by
\* struct_1's atom count; with copy_props the structure properties struct_1
\* defines keep struct_1's value.
StructureMerge(s1, s2) ==
    LET n == Len(s1.atoms) IN
    [atoms |-> s1.atoms \o s2.atoms,
     bonds |-> s1.bonds \cup
               {Bond(b.atom1 + n, b.atom2 + n, b.order, b.property) : b \in s2.bonds},
     s_m_title |-> s1.s_m_title,
     s_m_entry_name |-> s1.s_m_entry_name]

CommonAtoms2(s1, m2) == [k \in 1..Len(m2) |-> m2[k] + Len(s1.atoms)]
CommonAtoms1(m1) == m1

\* ------------------------------------------------ lines 252-254: properties
UpdateAlways(target, source) ==
    [k \in DOMAIN target \cup DOMAIN source |->
        IF k \in DOMAIN source THEN source[k] ELSE target[k]]

UpdateProperties(target, source) ==
    [k \in DOMAIN target \cup DOMAIN source |->
        IF k \in DOMAIN source /\ (k \notin DOMAIN target \/ ~Truthy(target[k]))
        THEN source[k]
        ELSE target[k]]

\* ------------------------------------ lines 223-254: one bond of common_atom_2
ReconcileBond(st, c1s, c2s, self, mb) ==
    LET nb == OtherEnd(mb, self)
        p  == ListIndex(c2s, self)
    IN
    IF p > Len(c1s) THEN Raise("IndexError", 227, <<>>)
    ELSE
    LET atom1 == c1s[p] IN
    IF InList(c2s, nb)
    THEN \* the bond is expected to exist in the original structure
         LET q == ListIndex(c2s, nb) IN
         IF q > Len(c1s) THEN Raise("IndexError", 234, <<>>)
         ELSE
         LET atom2 == c1s[q]
             found == GetBond(st, atom1, atom2)
         IN
         IF DOMAIN mb.property = {} THEN Ok(st)
         ELSE IF found = {} THEN Raise("AttributeError", 253, <<>>)
         ELSE LET bond == CHOOSE x \in found : TRUE IN
              Ok(SetProperty(st, atom1, atom2,
                             UpdateProperties(bond.property, mb.property)))
    ELSE \* a bond to an atom that only struct_2 has
         LET added == AddBond(st, atom1, nb, mb.order)
             bond  == CHOOSE x \in GetBond(added, atom1, nb) : TRUE
         IN Ok(SetProperty(added, atom1, nb,
                           UpdateProperties(bond.property, mb.property)))

\* lines 223-254: all bonds of common_atom_2, in turn
RECURSIVE ReconcileBonds(_, _, _, _, _)
ReconcileBonds(st, c1s, c2s, self, mbs) ==
    IF mbs = <<>> THEN Ok(st)
    ELSE LET r == ReconcileBond(st, c1s, c2s, self, Head(mbs)) IN
         IF r.ok THEN ReconcileBonds(r.st, c1s, c2s, self, Tail(mbs)) ELSE r

\* ------------------------------------------- merge.deleteAtoms(common_atoms_2)
\* The atoms at the given indices leave the atom sequence, every bond with one
\* of them as an endpoint goes with them, and the remaining atoms are numbered
\* again in their order.
DeleteOne(st, dead) ==
    LET old  == st.atoms
        kept == SelectSeq([k \in 1..Len(old) |-> k], LAMBDA k : k \notin dead)
        new(k) == CHOOSE j \in 1..Len(kept) : kept[j] = k
    IN [st EXCEPT
          !.atoms = [j \in 1..Len(kept) |-> old[kept[j]]],
          !.bonds = {Bond(new(b.atom1), new(b.atom2), b.order, b.property)
                       : b \in {x \in st.bonds : x.atom1 \notin dead /\ x.atom2 \notin dead}}]

\* A deletion one atom at a time that keeps using the indices of before.
RECURSIVE DeleteAtomsStale(_, _)
DeleteAtomsStale(st, c2s) ==
    IF c2s = <<>> THEN st
    ELSE DeleteAtomsStale(DeleteOne(st, {Head(c2s)}), Tail(c2s))

DeleteAtoms(st, c2s) ==
    DeleteOne(st, {c2s[k] : k \in 1..Len(c2s)})

\* ------------------------------------------------------- add_rca4, 289-359
\* lines 291-303: the RCA4 commands of struct_2, or the exception.  The try of
\* line 292 reads i_cs_rca4_1 twice and i_cs_rca4_2 never; line 302 reads
\* i_cs_rca4_2 outside the try.
RECURSIVE CollectRca4(_, _, _)
CollectRca4(bs, s2, acc) ==
    IF bs = <<>> THEN [ok |-> TRUE, st |-> acc, exc |-> NoExc]
    ELSE LET bond == Head(bs) IN
         IF RCA4_1 \notin DOMAIN bond.property
         THEN Raise("KeyError", 297, s2.s_m_title)
         ELSE IF Truthy(bond.property[RCA4_1])
              THEN IF RCA4_2 \notin DOMAIN bond.property
                   THEN Raise("KeyError", 302, <<>>)
                   ELSE CollectRca4(Tail(bs), s2,
                            Append(acc, <<bond.property[RCA4_1], bond.atom1,
                                          bond.atom2, bond.property[RCA4_2]>>))
              ELSE CollectRca4(Tail(bs), s2, acc)

\* lines 325-332: the index of struct_2's atom x after the union and the
\* deletion of the common atoms.
NewIndexNoShift(x, num_atoms, m2) == x + num_atoms

NewIndex(x, num_atoms, m2) ==
    LET new_match_2 == [k \in 1..Len(m2) |-> m2[k] + num_atoms]
        new_index   == x + num_atoms
    IN new_index - CountLess(new_match_2, new_index)

\* lines 315-332: one value of an RCA4 command (0: match_1 has no such position).
TranslateOk(x, m1, m2) == InList(m2, x) => ListIndex(m2, x) <= Len(m1)

Translate(x, num_atoms, m1, m2) ==
    IF InList(m2, x) THEN m1[ListIndex(m2, x)] ELSE NewIndex(x, num_atoms, m2)

\* lines 338-358: the bonds' RCA4 properties, one command after the other
RECURSIVE UpdateRca4(_, _)
UpdateRca4(st, cmds) ==
    IF cmds = <<>> THEN Ok(st)
    ELSE LET rca4  == Head(cmds)
             n     == Len(st.atoms)
             found == GetBond(st, rca4[2], rca4[3])
         IN
         IF found = {} THEN Raise("AttributeError", 341, <<>>)
         ELSE LET bond == CHOOSE x \in found : TRUE IN
              IF ~(Keys \subseteq DOMAIN bond.property)
              THEN Raise("KeyError", 341, <<>>)
              ELSE IF rca4[1] \notin 1..n \/ rca4[4] \notin 1..n
                   THEN Raise("IndexError", 351, <<>>)
                   ELSE UpdateRca4(
                            SetProperty(st, rca4[2], rca4[3],
                                [bond.property EXCEPT ![RCA4_1] = rca4[1],
                                                      ![RCA4_2] = rca4[4]]),
                            Tail(cmds))

add_rca4(mrg, s1, m1, s2, m2) ==
    LET got == CollectRca4(BondSeq(s2.bonds), s2, <<>>) IN
    IF ~got.ok THEN got
    ELSE
    LET rca4s     == got.st
        num_atoms == Len(s1.atoms)
        bad       == \E k \in 1..Len(rca4s) : \E j \in 1..4 :
                         ~TranslateOk(rca4s[k][j], m1, m2)
    IN
    IF bad THEN Raise("IndexError", 320, <<>>)
    ELSE UpdateRca4(mrg,
            [k \in 1..Len(rca4s) |->
                [j \in 1..4 |-> Translate(rca4s[k][j], num_atoms, m1, m2)]])

\* ------------------------------------------------------------------ inputs
\* An atom's identity: the structure it came from and its index there.
Atoms(s, n) == [k \in 1..n |-> <<s, k>>]

\* Injective sequences of the given length over 1..n: one match.
Matches(n, len) ==
    {m \in [1..len -> 1..n] : \A a, b \in 1..len : a # b => m[a] # m[b]}

NoRca4 == [i_cs_rca4_1 |-> 0, i_cs_rca4_2 |-> 0]

\* The property maps a bond of a structure of n atoms may carry: each RCA4 key
\* absent, 0 or an atom index.
PropertyMaps(n) ==
    UNION {[D -> 0..n] : D \in SUBSET Keys}

\* Bond sets over n atoms: at most maxb bonds, orders from `orders`, at most
\* maxtag bonds with a property map other than NoRca4.
BondSets(n, maxb, orders, props, maxtag) ==
    UNION {
        {{Bond(p[1], p[2], o[p], pr[p]) : p \in B}
            : o \in [B -> orders],
              pr \in {f \in [B -> props \cup {NoRca4}] :
                         Cardinality({p \in B : f[p] # NoRca4}) <= maxtag}}
        : B \in {X \in SUBSET Pairs(n) : Cardinality(X) <= maxb}}

\* struct_1: its bonds carry no RCA4 key, both at 0, or both set.
Properties1(n) == {<<>>, NoRca4, [i_cs_rca4_1 |-> 1, i_cs_rca4_2 |-> n]}

Structures1 ==
    UNION {
        {[atoms |-> Atoms(1, n), bonds |-> bs,
          s_m_title |-> <<"A">>, s_m_entry_name |-> <<"a">>]
            : bs \in BondSets(n, n, {1}, Properties1(n), n)}
        : n \in 1..MaxAtoms1}

Structures2 ==
    UNION {
        {[atoms |-> Atoms(2, n), bonds |-> bs,
          s_m_title |-> <<"B">>, s_m_entry_name |-> <<"b">>]
            : bs \in BondSets(n, MaxBonds2, {1, 2}, PropertyMaps(n), MaxTagged)}
        : n \in 2..MaxAtoms2}

\* ------------------------------------------------------------------ actions
DriverIdle ==
    /\ list_of_lists = <<>>
    /\ structures = <<>>
    /\ new_structures = <<>>
    /\ frames = <<>>
    /\ lvl = 0
    /\ pos = 0
    /\ result = <<>>
    /\ returned = None
    /\ calls = <<>>
    /\ dpc = "idle"
    /\ dexc = NoExc

EnantiomersIdle ==
    /\ arrays = <<>>
    /\ structure = None
    /\ other_enantiomer = None
    /\ yielded = <<>>
    /\ input = None
    /\ epc = "idle"

InitWith(S1, S2, lengths) ==
    /\ struct_1 \in S1
    /\ struct_2 \in S2
    /\ \E l \in lengths :
          /\ l[1] <= Len(struct_1.atoms)
          /\ l[2] <= Len(struct_2.atoms)
          /\ match_1 \in Matches(Len(struct_1.atoms), l[1])
          /\ match_2 \in Matches(Len(struct_2.atoms), l[2])
    /\ merge = None
    /\ i = 0
    /\ pc = "start"
    /\ exc = NoExc
    /\ DriverIdle
    /\ EnantiomersIdle

\* Match tuples found with one pattern have the pattern's length.
EqualLengths == {<<k, k>> : k \in 1..MaxAtoms1}

Init == InitWith(Structures1, Structures2, EqualLengths)

\* lines 191-205
Union ==
    /\ pc = "start"
    /\ merge' = StructureMerge(struct_1, struct_2)
    /\ i' = 1
    /\ pc' = "loop"
    /\ UNCHANGED <<struct_1, match_1, struct_2, match_2, exc>>
    /\ UNCHANGED <<dvars, evars>>

\* lines 208-254: one turn of the loop over izip(common_atoms_1, common_atoms_2)
Reconcile ==
    /\ pc = "loop"
    /\ i <= Min(Len(match_1), Len(match_2))
    /\ LET c1s == CommonAtoms1(match_1)
           c2s == CommonAtoms2(struct_1, match_2)
           r   == ReconcileBonds(merge, c1s, c2s, c2s[i], AtomBonds(merge, c2s[i]))
       IN IF r.ok
          THEN /\ merge' = r.st
               /\ i' = i + 1
               /\ UNCHANGED <<pc, exc>>
          ELSE /\ pc' = "raised"
               /\ exc' = r.exc
               /\ UNCHANGED <<merge, i>>
    /\ UNCHANGED <<struct_1, match_1, struct_2, match_2>>
    /\ UNCHANGED <<dvars, evars>>

\* line 257
Delete ==
    /\ pc = "loop"
    /\ i > Min(Len(match_1), Len(match_2))
    /\ merge' = DeleteAtoms(merge, CommonAtoms2(struct_1, match_2))
    /\ pc' = "rca4"
    /\ UNCHANGED <<struct_1, match_1, struct_2, match_2, i, exc>>
    /\ UNCHANGED <<dvars, evars>>

\* line 258
AddRca4 ==
    /\ pc = "rca4"
    /\ LET r == add_rca4(merge, struct_1, match_1, struct_2, match_2) IN
       IF r.ok
       THEN /\ merge' = r.st
            /\ pc' = "title"
            /\ UNCHANGED exc
       ELSE /\ pc' = "raised"
            /\ exc' = r.exc
            /\ UNCHANGED merge
    /\ UNCHANGED <<struct_1, match_1, struct_2, match_2, i>>
    /\ UNCHANGED <<dvars, evars>>

\* lines 260-264
Return ==
    /\ pc = "title"
    /\ merge' = [merge EXCEPT
          !.s_m_title = @ \o <<"_">> \o struct_2.s_m_title,
          !.s_m_entry_name = @ \o <<"_">> \o struct_2.s_m_entry_name]
    /\ pc' = "done"
    /\ UNCHANGED <<struct_1, match_1, struct_2, match_2, i, exc>>
    /\ UNCHANGED <<dvars, evars>>

Next == Union \/ Reconcile \/ Delete \/ AddRca4 \/ Return

Spec == Init /\ [][Next]_vars

\* Direct calls with tuples of different lengths.
UnequalLengths ==
    {l \in (1..MaxAtoms1) \X (1..MaxAtoms2) : l[1] # l[2]}

InitArity == InitWith(Structures1, Structures2, UnequalLengths)

SpecArity == InitArity /\ [][Next]_vars

\* ------------------------------------------------------- vocabulary of claims
N1 == Len(struct_1.atoms)
N2 == Len(struct_2.atoms)
Returned == pc = "done"
LoopDone == pc = "loop" /\ i > Min(Len(match_1), Len(match_2))

Common2(x) == InList(match_2, x)

\* The identity of the atom that stands for struct_2's atom x after the merge:
\* the atom itself, or its counterpart in struct_1 when it is a common atom.
Survivor(x) ==
    IF Common2(x) THEN <<1, match_1[ListIndex(match_2, x)]>> ELSE <<2, x>>

\* The bonds of structure st between the atoms of identities s and t.
BondsBetween(st, s, t) ==
    {b \in st.bonds : {st.atoms[b.atom1], st.atoms[b.atom2]} = {s, t}}

Tagged(b) == RCA4_1 \in DOMAIN b.property /\ Truthy(b.property[RCA4_1])

HasAllKeys == \A b \in struct_2.bonds : Keys \subseteq DOMAIN b.property

\* ------------------------------------------------------------------------ C1
\* C1: in the returned structure, every struct_2 bond whose i_cs_rca4_1 is set
\* has a bond between the survivors of its two endpoints, and that bond's
\* i_cs_rca4_1 and i_cs_rca4_2 are the indices, in the returned structure, of the
\* survivors of the atoms the original values named; and the index the code
\* computes for a struct_2 atom that is not common is the index that atom has
\* after the deletion.
C1_Rca4NamesSameAtoms ==
    Returned =>
      /\ \A b \in struct_2.bonds :
            Tagged(b) =>
              \E mb \in BondsBetween(merge, Survivor(b.atom1), Survivor(b.atom2)) :
                 /\ Keys \subseteq DOMAIN mb.property
                 /\ mb.property[RCA4_1] \in 1..Len(merge.atoms)
                 /\ merge.atoms[mb.property[RCA4_1]] = Survivor(b.property[RCA4_1])
                 /\ b.property[RCA4_2] \in 1..N2 =>
                      /\ mb.property[RCA4_2] \in 1..Len(merge.atoms)
                      /\ merge.atoms[mb.property[RCA4_2]] = Survivor(b.property[RCA4_2])
      /\ \A x \in 1..N2 :
            ~Common2(x) =>
              /\ NewIndex(x, N1, match_2) \in 1..Len(merge.atoms)
              /\ merge.atoms[NewIndex(x, N1, match_2)] = <<2, x>>

\* A tagged bond from a common atom to one that is not, naming an atom that
\* moves down (a common atom lies before it) and a common atom.
C1_Witness ==
    /\ Returned
    /\ \E b \in struct_2.bonds :
          /\ Tagged(b)
          /\ Common2(b.atom1) /\ ~Common2(b.atom2)
          /\ ~Common2(b.property[RCA4_1])
          /\ \E k \in 1..Len(match_2) : match_2[k] < b.property[RCA4_1]
          /\ b.property[RCA4_2] \in 1..N2 /\ Common2(b.property[RCA4_2])

\* ------------------------------------------------------------------------ C2
\* C2: the returned structure has |A| + |B| - k atoms: A's atoms at their
\* indices 1..|A|, followed by B's atoms other than the k common ones.
C2_AtomCount ==
    Returned =>
      /\ Len(merge.atoms) = N1 + N2 - Len(match_2)
      /\ \A k \in 1..N1 : merge.atoms[k] = <<1, k>>
      /\ {merge.atoms[k] : k \in 1..Len(merge.atoms)} =
            {<<1, k>> : k \in 1..N1} \cup {<<2, x>> : x \in {y \in 1..N2 : ~Common2(y)}}

\* Two common atoms are deleted, one of them before an atom that stays.
C2_Witness ==
    /\ Returned
    /\ Len(match_2) = 2
    /\ \E x \in 1..N2 : ~Common2(x) /\ \E k \in 1..2 : match_2[k] < x

\* ------------------------------------------------------------------------ C6
MissingKey == \E b \in struct_2.bonds : ~(Keys \subseteq DOMAIN b.property)

\* C6: when a bond of struct_2 lacks i_cs_rca4_1 or i_cs_rca4_2 altogether, no
\* merged structure is returned, and the exception add_rca4 raises comes with
\* the diagnostic that names struct_2's title.
C6_MissingKeyIsFatal ==
    MissingKey =>
      /\ pc \notin {"title", "done"}
      /\ (pc = "raised" /\ exc.line >= 289) => exc.diag = struct_2.s_m_title

\* ------------------------------------------------------------------------ C7
\* C7: a call with match tuples of different lengths is rejected: it never
\* gets as far as a merged structure.
C7_UnequalLengthsRejected ==
    Len(match_1) # Len(match_2) => ~Returned

\* ------------------------------------------------------------------------ C8
\* The annotation merge rule, key by key: target is the bond's property map
\* before, source the struct_2 bond's, result the bond's property map after.
FollowsMergeRule(target, source, after) ==
    \A K \in Keys :
       /\ (K \in DOMAIN target /\ Truthy(target[K])) =>
             K \in DOMAIN after /\ after[K] = target[K]
       /\ (K \in DOMAIN source /\ ~(K \in DOMAIN target /\ Truthy(target[K]))) =>
             K \in DOMAIN after /\ after[K] = source[K]
       /\ K \notin DOMAIN source =>
             /\ K \in DOMAIN after <=> K \in DOMAIN target
             /\ K \in DOMAIN target => after[K] = target[K]

\* C8: when the loop over the common atoms has ended, (a) the struct_1 bond
\* between the counterparts of two common atoms that struct_2 bonds carries its
\* own annotations merged with the struct_2 bond's by the rule (a key is copied
\* only when the bond lacks it or holds a falsy value for it), and (b) the bond
\* created from a common atom's counterpart to an atom only struct_2 has carries
\* exactly the struct_2 bond's annotations.
C8_AnnotationMergeRule ==
    LoopDone =>
      \A sb \in struct_2.bonds :
         /\ (Common2(sb.atom1) /\ Common2(sb.atom2)) =>
               \A tb \in BondsBetween(struct_1, Survivor(sb.atom1), Survivor(sb.atom2)) :
                  \E mb \in BondsBetween(merge, Survivor(sb.atom1), Survivor(sb.atom2)) :
                     FollowsMergeRule(tb.property, sb.property, mb.property)
         /\ (Common2(sb.atom1) # Common2(sb.atom2)) =>
               \E mb \in BondsBetween(merge, Survivor(sb.atom1), Survivor(sb.atom2)) :
                  mb.property = sb.property

\* Both cases at once: a struct_1 bond that holds a truthy value meets a
\* struct_2 bond with another truthy value for the key, and a bond is created.
C8_Witness ==
    /\ LoopDone
    /\ \E sb \in struct_2.bonds :
          /\ Common2(sb.atom1) /\ Common2(sb.atom2)
          /\ \E tb \in BondsBetween(struct_1, Survivor(sb.atom1), Survivor(sb.atom2)) :
                \E K \in DOMAIN tb.property \cap DOMAIN sb.property :
                   Truthy(tb.property[K]) /\ Truthy(sb.property[K])
                     /\ tb.property[K] # sb.property[K]
    /\ \E sb \in struct_2.bonds : Common2(sb.atom1) # Common2(sb.atom2)

\* ----------------------------------------------------------------------- C10
\* (1) every bond of struct_1 is there, between the same atoms, in its order
C10_Struct1BondsKept ==
    \A b \in struct_1.bonds :
       \E mb \in merge.bonds :
          mb.atom1 = b.atom1 /\ mb.atom2 = b.atom2 /\ mb.order = b.order
\* (2), (3) a struct_2 bond with at most one common endpoint is there between
\* the survivors of its endpoints, in its order
C10_Struct2BondsKept ==
    \A b \in struct_2.bonds :
       ~(Common2(b.atom1) /\ Common2(b.atom2)) =>
          \E mb \in BondsBetween(merge, Survivor(b.atom1), Survivor(b.atom2)) :
             mb.order = b.order
\* (4) no bond ends at a deleted atom: every endpoint is an atom of the result,
\* and no atom of the result is a common atom of struct_2
C10_NoDanglingBond ==
    /\ \A mb \in merge.bonds : {mb.atom1, mb.atom2} \subseteq 1..Len(merge.atoms)
    /\ \A k \in 1..Len(merge.atoms) :
          merge.atoms[k][1] = 2 => ~Common2(merge.atoms[k][2])
\* (5) a struct_2 bond between two common atoms is the bond between their
\* counterparts
C10_CommonBondsRepresented ==
    \A b \in struct_2.bonds :
       (Common2(b.atom1) /\ Common2(b.atom2)) =>
          BondsBetween(merge, Survivor(b.atom1), Survivor(b.atom2)) # {}

\* C10: the merge of two graphs with matches of equal length (and the RCA4 keys
\* on every struct_2 bond) completes, and the returned graph has properties
\* (1) to (5).
C10_GraphCorrect ==
    /\ (Len(match_1) = Len(match_2) /\ HasAllKeys) => pc # "raised"
    /\ Returned =>
          /\ C10_Struct1BondsKept
          /\ C10_Struct2BondsKept
          /\ C10_NoDanglingBond
          /\ C10_CommonBondsRepresented

\* What the code does keep: the returned graph has properties (1) to (5).
C10_ReturnedGraphCorrect ==
    Returned =>
       /\ C10_Struct1BondsKept
       /\ C10_Struct2BondsKept
       /\ C10_NoDanglingBond
       /\ C10_CommonBondsRepresented

\* ======================================================================
\* merge_many_filenames: groups of structures, merged group after group.
\*
\* Here a structure is a record of what the driver reads: property (the
\* structure properties as a sequence of <<key, value>> in the dictionary's
\* iteration order), xyz (the atoms' coordinates), rca4_keys (whether every
\* bond carries i_cs_rca4_1, which line 293 requires of struct_2), hits (the
\* answers the matcher can give for each pattern property of the structure: on1
\* on the structure it is merged into, on2 on the structure itself) and via
\* (history: for each merge, struct_2's coordinates and the pair of matches).
\* ======================================================================
MaxFirst == 2
MaxLater == 2
MaxPatterns == 2
MaxMatches == 2

TITLE == "s_m_title"
BOTH == "b_cs_both_enantiomers"
PatternKeys == <<"s_cs_pattern", "s_cs_pattern_2", "s_cs_pattern_3", "s_cs_pattern_4">>
PatternValues == <<"P1", "P2", "P3", "P4">>

\* lookup in key, for the keys the model uses
KeyContainsPattern(key) == \E k \in 1..Len(PatternKeys) : PatternKeys[k] = key

HasKey(dic, key) == \E k \in 1..Len(dic) : dic[k][1] = key
\* dic[key]
PropertyOf(dic, key) == dic[CHOOSE k \in 1..Len(dic) : dic[k][1] = key][2]
\* dic.get(key, default)
PropertyGet(dic, key, default) == IF HasKey(dic, key) THEN PropertyOf(dic, key) ELSE default

\* lines 158-170: the values of the keys that contain `lookup` ('pattern')
RECURSIVE search_dic_keys(_)
search_dic_keys(dic) ==
    IF dic = <<>> THEN <<>>
    ELSE (IF KeyContainsPattern(Head(dic)[1]) THEN <<Head(dic)[2]>> ELSE <<>>)
         \o search_dic_keys(Tail(dic))

Title(st) == PropertyOf(st.property, TITLE)

\* ------------------------------------------------ load_enantiomers, 398-425
\* lines 423-424: the x coordinate of every atom inverted
InvertX(xyz) == [k \in DOMAIN xyz |-> <<-xyz[k][1], xyz[k][2], xyz[k][3]>>]

\* lines 422-425 by value: the other enantiomer of a structure
Mirror(st) == [st EXCEPT !.xyz = InvertX(@)]

\* everything the generator yields for one structure
load_enantiomers(st) ==
    <<st>> \o (IF PropertyGet(st.property, BOTH, FALSE) THEN <<Mirror(st)>> ELSE <<>>)

\* lines 444-449, 454-459: the list built from one group
RECURSIVE LoadGroup(_)
LoadGroup(group) ==
    IF group = <<>> THEN <<>>
    ELSE load_enantiomers(Head(group)) \o LoadGroup(Tail(group))

\* ------------------------------------------------------ the pattern matcher
\* analyze.evaluate_smarts / evaluate_substructure are library code: a call
\* answers with any number of matches up to MaxMatches.  A match is named by
\* the structure asked, the pattern and its place in the answer.
MatchList(on, pattern, n) == [k \in 1..n |-> <<on, pattern, k>>]

\* ------------------------------------- the structure a merge yields (260-264)
Merged(s1, s2, m1, m2) ==
    [property |-> [k \in 1..Len(s1.property) |->
                      IF s1.property[k][1] = TITLE
                      THEN <<TITLE, s1.property[k][2] \o <<"_">> \o Title(s2)>>
                      ELSE s1.property[k]],
     xyz |-> s1.xyz,
     rca4_keys |-> s1.rca4_keys,
     hits |-> s1.hits,
     via |-> Append(s1.via, <<s2.xyz, m1, m2>>)]

\* ------------------------------------------------------------------ frames
\* A suspended merge_many_structures generator with the merge generator and
\* the get_overlapping_atoms_in_both call inside it:
\*   phase  "s1" (line 429), "s2" (line 430), "overlap" (lines 124-147),
\*          "pairs" (lines 382-396), "end" (exhausted)
\*   s1, j  structure_1 and the position of structure_2 in structures_2
\*   patterns, p   the list of line 122 and the position of the loop of line 124
\*   bound1, bound2, m1, m2   the locals match_struct_1, match_struct_2
\*   a, b   the positions of the loops of lines 382 and 383
\*   evals  history: the matcher calls of the get_overlapping call
NoStructure ==
    [property |-> <<>>, xyz |-> <<>>, rca4_keys |-> TRUE, hits |-> <<>>, via |-> <<>>]

NewFrame ==
    [phase |-> "s1", s1 |-> NoStructure, j |-> 0, patterns |-> <<>>, p |-> 0,
     bound1 |-> FALSE, bound2 |-> FALSE, m1 |-> <<>>, m2 |-> <<>>,
     a |-> 0, b |-> 0, evals |-> <<>>]

Top == Len(list_of_lists) - 1
Frame == frames[lvl]
Structure2 == new_structures[lvl][Frame.j]

\* --------------------------------- get_overlapping_atoms_in_both, 122-156
\* lines 124-147: one turn of the loop over the patterns.  n1 and n2 are the
\* matcher's answers for struct_1 and struct_2; struct_2 is asked only when
\* struct_1 matched, and then the loop is left.
OverlapTurnNoBreak(f, n1, n2) ==
    LET pattern == f.patterns[f.p]
        ms1 == MatchList(1, pattern, n1)
        ms2 == MatchList(2, pattern, n2)
    IN IF n1 > 0
       THEN [f EXCEPT !.m1 = ms1, !.bound1 = TRUE, !.m2 = ms2, !.bound2 = TRUE,
                      !.evals = @ \o <<[on |-> 1, pattern |-> pattern, matches |-> ms1],
                                       [on |-> 2, pattern |-> pattern, matches |-> ms2]>>,
                      !.p = @ + 1,
                      !.phase = IF f.p < Len(f.patterns) THEN "overlap" ELSE "try"]
       ELSE [f EXCEPT !.m1 = ms1, !.bound1 = TRUE,
                      !.evals = Append(@, [on |-> 1, pattern |-> pattern, matches |-> ms1]),
                      !.p = @ + 1,
                      !.phase = IF f.p < Len(f.patterns) THEN "overlap" ELSE "try"]

OverlapTurn(f, n1, n2) ==
    LET pattern == f.patterns[f.p]
        ms1 == MatchList(1, pattern, n1)
        ms2 == MatchList(2, pattern, n2)
    IN IF n1 > 0
       THEN [f EXCEPT !.m1 = ms1, !.bound1 = TRUE, !.m2 = ms2, !.bound2 = TRUE,
                      !.evals = @ \o <<[on |-> 1, pattern |-> pattern, matches |-> ms1],
                                       [on |-> 2, pattern |-> pattern, matches |-> ms2]>>,
                      !.phase = "try"]
       ELSE [f EXCEPT !.m1 = ms1, !.bound1 = TRUE,
                      !.evals = Append(@, [on |-> 1, pattern |-> pattern, matches |-> ms1]),
                      !.p = @ + 1,
                      !.phase = IF f.p < Len(f.patterns) THEN "overlap" ELSE "try"]

\* lines 148-155: reading the two locals raises when one was never assigned
OverlapFailsUnbound1(f) == ~f.bound1

OverlapFails(f) == ~f.bound1 \/ ~f.bound2

\* lines 382-383: the loops over match_1s and match_2s, after one yield
AdvanceZip(f) == [f EXCEPT !.a = @ + 1, !.b = @ + 1]

Advance(f) ==
    IF f.b < Len(f.m2) THEN [f EXCEPT !.b = @ + 1]
    ELSE [f EXCEPT !.a = @ + 1, !.b = 1]

\* the merge generator has a structure to yield
HasPair(f) == f.a <= Len(f.m1) /\ f.b <= Len(f.m2)

\* ----------------------------------------------------------- driver actions
MergeIdle ==
    /\ struct_1 = NoStructure
    /\ struct_2 = NoStructure
    /\ match_1 = <<>>
    /\ match_2 = <<>>
    /\ merge = None
    /\ i = 0
    /\ pc = "idle"
    /\ exc = NoExc

InitDriver(inputs) ==
    /\ list_of_lists \in inputs
    /\ structures = <<>>
    /\ new_structures = <<>>
    /\ frames = <<>>
    /\ lvl = 0
    /\ pos = 0
    /\ result = <<>>
    /\ returned = None
    /\ calls = <<>>
    /\ dpc = "load"
    /\ dexc = NoExc
    /\ MergeIdle
    /\ EnantiomersIdle

\* lines 443-463: the groups are read; the generators are created, not run
LoadGroups ==
    /\ dpc = "load"
    /\ structures' = LoadGroup(list_of_lists[1])
    /\ new_structures' = [g \in 1..Top |-> LoadGroup(list_of_lists[g + 1])]
    /\ frames' = [g \in 1..Top |-> NewFrame]
    /\ lvl' = Top
    /\ dpc' = "list"
    /\ UNCHANGED <<list_of_lists, pos, result, returned, calls, dexc, mvars, evars>>

\* line 464 with one group: list() of the list
ReturnList ==
    /\ dpc = "list" /\ Top = 0
    /\ result' = structures
    /\ returned' = structures
    /\ dpc' = "returned"
    /\ UNCHANGED <<list_of_lists, structures, new_structures, frames, lvl, pos,
                   calls, dexc, mvars, evars>>

Running == dpc = "list" /\ Top >= 1

\* line 429 in the first generator: the next element of the list
PullList ==
    /\ Running /\ lvl = 1 /\ Frame.phase = "s1"
    /\ IF pos < Len(structures)
       THEN /\ frames' = [frames EXCEPT ![1] =
                            [@ EXCEPT !.s1 = structures[pos + 1], !.j = 1, !.phase = "s2"]]
            /\ pos' = pos + 1
       ELSE /\ frames' = [frames EXCEPT ![1] = [@ EXCEPT !.phase = "end"]]
            /\ UNCHANGED pos
    /\ UNCHANGED <<list_of_lists, structures, new_structures, lvl, result, returned,
                   calls, dpc, dexc, mvars, evars>>

\* line 429 in a later generator: the generator below is resumed
PullBelow ==
    /\ Running /\ lvl > 1 /\ Frame.phase = "s1"
    /\ lvl' = lvl - 1
    /\ UNCHANGED <<list_of_lists, structures, new_structures, frames, pos, result,
                   returned, calls, dpc, dexc, mvars, evars>>

\* lines 430-431, 379, 122: the next structure_2, and merge() starts on the pair
StartMerge ==
    /\ Running /\ Frame.phase = "s2" /\ Frame.j <= Len(new_structures[lvl])
    /\ LET patterns == search_dic_keys(Structure2.property) IN
       frames' = [frames EXCEPT ![lvl] =
                    [@ EXCEPT !.patterns = patterns, !.p = 1,
                              !.bound1 = FALSE, !.bound2 = FALSE,
                              !.m1 = <<>>, !.m2 = <<>>, !.a = 0, !.b = 0,
                              !.evals = <<>>,
                              !.phase = IF patterns = <<>> THEN "try" ELSE "overlap"]]
    /\ UNCHANGED <<list_of_lists, structures, new_structures, lvl, pos, result,
                   returned, calls, dpc, dexc, mvars, evars>>

\* line 430: structures_2 is exhausted
NextStructure1 ==
    /\ Running /\ Frame.phase = "s2" /\ Frame.j > Len(new_structures[lvl])
    /\ frames' = [frames EXCEPT ![lvl] = [@ EXCEPT !.phase = "s1"]]
    /\ UNCHANGED <<list_of_lists, structures, new_structures, lvl, pos, result,
                   returned, calls, dpc, dexc, mvars, evars>>

\* lines 124-147
CheckPattern ==
    /\ Running /\ Frame.phase = "overlap"
    /\ \E n1 \in Structure2.hits[Frame.p].on1, n2 \in Structure2.hits[Frame.p].on2 :
          frames' = [frames EXCEPT ![lvl] = OverlapTurn(@, n1, n2)]
    /\ UNCHANGED <<list_of_lists, structures, new_structures, lvl, pos, result,
                   returned, calls, dpc, dexc, mvars, evars>>

\* lines 148-156, 379-381: both locals are bound and the pair of match sets returns
OverlapReturn ==
    /\ Running /\ Frame.phase = "try" /\ ~OverlapFails(Frame)
    /\ frames' = [frames EXCEPT ![lvl] = [@ EXCEPT !.phase = "pairs", !.a = 1, !.b = 1]]
    /\ calls' = Append(calls, [lvl |-> lvl, s1 |-> Frame.s1, j |-> Frame.j,
                               m1 |-> Frame.m1, m2 |-> Frame.m2])
    /\ UNCHANGED <<list_of_lists, structures, new_structures, lvl, pos, result,
                   returned, dpc, dexc, mvars, evars>>

\* lines 151-155: UnboundLocalError, after the titles are printed; nothing
\* catches it, so it leaves merge_many_filenames (line 464)
OverlapRaise ==
    /\ Running /\ Frame.phase = "try" /\ OverlapFails(Frame)
    /\ dpc' = "raised"
    /\ dexc' = [type |-> "UnboundLocalError", line |-> 155,
                diag |-> <<Title(Frame.s1), Title(Structure2)>>]
    /\ UNCHANGED <<list_of_lists, structures, new_structures, frames, lvl, pos, result,
                   returned, calls, mvars, evars>>

\* lines 394-396 and 432: the merged structure of the next pair of matches is
\* yielded, to list() from the last generator, else to the generator above;
\* add_rca4 raises when a bond of struct_2 lacks i_cs_rca4_1 (lines 293-297)
Yield ==
    /\ Running /\ Frame.phase = "pairs" /\ HasPair(Frame)
    /\ IF ~Structure2.rca4_keys
       THEN /\ dpc' = "raised"
            /\ dexc' = [type |-> "KeyError", line |-> 297, diag |-> <<Title(Structure2)>>]
            /\ UNCHANGED <<frames, lvl, result>>
       ELSE LET v == Merged(Frame.s1, Structure2, Frame.m1[Frame.a], Frame.m2[Frame.b]) IN
            /\ UNCHANGED <<dpc, dexc>>
            /\ IF lvl = Top
               THEN /\ result' = Append(result, v)
                    /\ frames' = [frames EXCEPT ![lvl] = Advance(@)]
                    /\ UNCHANGED lvl
               ELSE /\ frames' = [frames EXCEPT
                          ![lvl] = Advance(@),
                          ![lvl + 1] = [@ EXCEPT !.s1 = v, !.j = 1, !.phase = "s2"]]
                    /\ lvl' = lvl + 1
                    /\ UNCHANGED result
    /\ UNCHANGED <<list_of_lists, structures, new_structures, pos, returned, calls, mvars, evars>>

\* lines 382-383 exhausted: merge() ends, line 430 goes on
EndMerge ==
    /\ Running /\ Frame.phase = "pairs" /\ ~HasPair(Frame)
    /\ frames' = [frames EXCEPT ![lvl] = [@ EXCEPT !.phase = "s2", !.j = @ + 1]]
    /\ UNCHANGED <<list_of_lists, structures, new_structures, lvl, pos, result,
                   returned, calls, dpc, dexc, mvars, evars>>

\* a generator is exhausted: the loop of line 429 above it ends as well
Exhausted ==
    /\ Running /\ Frame.phase = "end" /\ lvl < Top
    /\ frames' = [frames EXCEPT ![lvl + 1] = [@ EXCEPT !.phase = "end"]]
    /\ lvl' = lvl + 1
    /\ UNCHANGED <<list_of_lists, structures, new_structures, pos, result, returned,
                   calls, dpc, dexc, mvars, evars>>

\* line 464: the last generator is exhausted and the list is returned
Finish ==
    /\ Running /\ Frame.phase = "end" /\ lvl = Top
    /\ returned' = result
    /\ dpc' = "returned"
    /\ UNCHANGED <<list_of_lists, structures, new_structures, frames, lvl, pos, result,
                   calls, dexc, mvars, evars>>

NextDriver ==
    \/ LoadGroups \/ ReturnList \/ PullList \/ PullBelow \/ StartMerge
    \/ NextStructure1 \/ CheckPattern \/ OverlapReturn \/ OverlapRaise
    \/ Yield \/ EndMerge \/ Exhausted \/ Finish

\* ------------------------------------------------------------ driver inputs
Names == << <<"a1", "a2", "a3">>, <<"b1", "b2", "b3">>, <<"c1", "c2", "c3">>,
            <<"d1", "d2", "d3">> >>

\* A structure as read from a file.  both is 0 (b_cs_both_enantiomers absent),
\* 1 (false) or 2 (true); hits has one entry per pattern property.
Fragment(name, both, hits, keys) ==
    [property |-> <<<<TITLE, <<name>>>>>>
                  \o (IF both = 0 THEN <<>> ELSE <<<<BOTH, both = 2>>>>)
                  \o [k \in 1..Len(hits) |-> <<PatternKeys[k], PatternValues[k]>>],
     xyz |-> <<<<1, 2, 3>>>>,
     rca4_keys |-> keys,
     hits |-> hits,
     via |-> <<>>]

Counts == 0..MaxMatches

\* The matcher's answer is known: one pattern at most.
KnownHits ==
    {<<>>} \cup {<<[on1 |-> {n1}, on2 |-> {n2}]>> : n1 \in Counts, n2 \in Counts}

\* The matcher may answer anything: up to MaxPatterns patterns.
AnyHits == {[k \in 1..n |-> [on1 |-> Counts, on2 |-> Counts]] : n \in 0..MaxPatterns}

FirstFragments(k) == {Fragment(Names[1][k], both, <<>>, TRUE) : both \in {0, 2}}

\* The pattern properties and the RCA4 keys are read from struct_2 only, which
\* is never of the first group.
LaterFragments(g, k) ==
    {Fragment(Names[g][k], f[1], hits, f[2])
        : f \in {<<0, TRUE>>, <<2, TRUE>>, <<0, FALSE>>}, hits \in KnownHits}

Fragments(g, k) == IF g = 1 THEN FirstFragments(k) ELSE LaterFragments(g, k)

\* the groups of n structures: structures k..n of group g
RECURSIVE GroupsOf(_, _, _)
GroupsOf(g, k, n) ==
    IF k > n THEN {<<>>}
    ELSE {<<x>> \o rest : x \in Fragments(g, k), rest \in GroupsOf(g, k + 1, n)}

FirstGroups == UNION {GroupsOf(1, 1, n) : n \in 1..MaxFirst}

LaterGroups(g, n) == GroupsOf(g, 1, n)

\* the groups after group g - 1, holding `left` structures between them at most
RECURSIVE LaterLists(_, _)
LaterLists(g, left) ==
    {<<>>} \cup
    UNION {{<<x>> \o rest : x \in LaterGroups(g, n), rest \in LaterLists(g + 1, left - n)}
           : n \in 1..left}

ListsOfLists == {<<x>> \o rest : x \in FirstGroups, rest \in LaterLists(2, MaxLater)}

\* One pair of structures, and a matcher that may answer anything.
Pairs12 ==
    {<<<<Fragment("a1", 0, <<>>, TRUE)>>, <<Fragment("b1", both, hits, TRUE)>>>>
        : both \in {0, 2}, hits \in AnyHits}

InitMany == InitDriver(ListsOfLists \cup Pairs12)

SpecMany == InitMany /\ [][NextDriver]_vars

\* ======================================================================
\* load_enantiomers, step by step.  A structure object holds its properties,
\* atoms and bonds and the address of its coordinate array: getXYZ(copy=False)
\* hands out the array itself, so writing to it writes to every object that
\* holds the address.
\* ======================================================================
MaxEAtoms == 2

Coords == {-1, 0, 1}
Points == Coords \X Coords \X Coords

\* the structure with its coordinates read out of the memory
Value(mem, s) == [s EXCEPT !.xyz = mem[s.xyz]]

\* copy.copy would share the coordinate array
SameArray(mem, s) == [arrays |-> mem, object |-> s]

\* line 422, copy.deepcopy: a new object with a coordinate array of its own
deepcopy(mem, s) ==
    [arrays |-> Append(mem, mem[s.xyz]), object |-> [s EXCEPT !.xyz = Len(mem) + 1]]

Elements == <<"C", "H", "N">>

\* the structures load_enantiomers is called with: the annotation absent (0),
\* false (1) or true (2); the array of the structure is at address 1
Objects(n) ==
    {[property |-> <<<<TITLE, <<"a1">>>>>>
                   \o (IF both = 0 THEN <<>> ELSE <<<<BOTH, both = 2>>>>),
      atom |-> SubSeq(Elements, 1, n),
      bond |-> {b \in Pairs(n) : b[2] = b[1] + 1},
      xyz |-> 1] : both \in 0..2}

InitEnantiomers ==
    /\ \E n \in 1..MaxEAtoms :
          /\ structure \in Objects(n)
          /\ arrays \in {<<a>> : a \in [1..n -> Points]}
    /\ input = Value(arrays, structure)
    /\ other_enantiomer = None
    /\ yielded = <<>>
    /\ epc = "start"
    /\ MergeIdle
    /\ DriverIdle

\* line 418
YieldStructure ==
    /\ epc = "start"
    /\ yielded' = Append(yielded, structure)
    /\ epc' = "test"
    /\ UNCHANGED <<arrays, structure, other_enantiomer, input, mvars, dvars>>

\* lines 419-421
TestBoth ==
    /\ epc = "test"
    /\ epc' = IF PropertyGet(structure.property, BOTH, FALSE) THEN "copy" ELSE "stop"
    /\ UNCHANGED <<arrays, structure, other_enantiomer, yielded, input, mvars, dvars>>

\* line 422
Copy ==
    /\ epc = "copy"
    /\ LET c == deepcopy(arrays, structure) IN
          /\ arrays' = c.arrays
          /\ other_enantiomer' = c.object
    /\ epc' = "invert"
    /\ UNCHANGED <<structure, yielded, input, mvars, dvars>>

\* lines 423-424: the loop writes to the array of other_enantiomer
Invert ==
    /\ epc = "invert"
    /\ arrays' = [arrays EXCEPT ![other_enantiomer.xyz] = InvertX(@)]
    /\ epc' = "yield"
    /\ UNCHANGED <<structure, other_enantiomer, yielded, input, mvars, dvars>>

\* line 425, and the end of the generator
YieldOther ==
    /\ epc = "yield"
    /\ yielded' = Append(yielded, other_enantiomer)
    /\ epc' = "stop"
    /\ UNCHANGED <<arrays, structure, other_enantiomer, input, mvars, dvars>>

NextEnantiomers == YieldStructure \/ TestBoth \/ Copy \/ Invert \/ YieldOther

SpecEnantiomers == InitEnantiomers /\ [][NextEnantiomers]_vars

\* ======================================================================
\* Claims about the driver and the generators
\* ======================================================================

NoPatternMatched(f) ==
    /\ f.phase = "try"
    /\ \A k \in 1..Len(f.evals) : f.evals[k].on = 1 => f.evals[k].matches = <<>>

\* C4: when no pattern of struct_2's catalog matched on struct_1 (the empty
\* catalog included), the next step is the failure that names both titles, and
\* a run that failed has returned nothing, whatever it had merged before.
C4_NoMatchAborts ==
    [][/\ (Running /\ NoPatternMatched(Frame)) =>
             /\ dpc' = "raised"
             /\ dexc'.type = "UnboundLocalError"
             /\ dexc'.diag = <<Title(Frame.s1), Title(Structure2)>>
       /\ dpc' = "raised" => (returned' = None /\ result' = result)
       /\ dpc = "raised" => (dpc' = "raised" /\ returned' = None)]_vars

\* a pair without a match after another pair was merged and collected
C4_Witness ==
    /\ dpc = "raised"
    /\ dexc.type = "UnboundLocalError"
    /\ dexc.diag = <<Title(Frame.s1), Title(Structure2)>>
    /\ Len(result) >= 1
    /\ returned = None

RECURSIVE Flatten(_)
Flatten(seqs) == IF seqs = <<>> THEN <<>> ELSE Head(seqs) \o Flatten(Tail(seqs))

\* what merge() is to yield for structure a and the j-th structure of group l,
\* given the match sets get_overlapping_atoms_in_both returned for the pair:
\* one structure per pair of the cross product, match_1 outermost
PairOutputs(l, a, j) ==
    LET cs == {k \in 1..Len(calls) :
                  calls[k].lvl = l /\ calls[k].s1 = a /\ calls[k].j = j}
    IN IF cs = {} THEN <<NoStructure>>
       ELSE LET c == calls[CHOOSE k \in cs : TRUE]
                w == Len(c.m2)
            IN [n \in 1..(Len(c.m1) * w) |->
                  Merged(a, new_structures[l][j],
                         c.m1[((n - 1) \div w) + 1], c.m2[((n - 1) % w) + 1])]

\* the working set after group l: group 0, then for each later group the
\* concatenation of the outputs over every a of the working set and every b of
\* the group
RECURSIVE WorkingSet(_)
WorkingSet(l) ==
    IF l = 0 THEN LoadGroup(list_of_lists[1])
    ELSE LET ws == WorkingSet(l - 1)
             w == Len(new_structures[l])
         IN Flatten([n \in 1..(Len(ws) * w) |->
                       PairOutputs(l, ws[((n - 1) \div w) + 1], ((n - 1) % w) + 1)])

\* the sum, over the pairs of the last group, of the products of the sizes of
\* the match sets
RECURSIVE SumOfProducts(_)
SumOfProducts(k) ==
    IF k = 0 THEN 0
    ELSE SumOfProducts(k - 1)
         + (IF calls[k].lvl = Top THEN Len(calls[k].m1) * Len(calls[k].m2) ELSE 0)

\* C5: a run that returns returns the working set after the last group, which
\* holds one structure per pair of matches of every pair of structures; with
\* one group it returns the enantiomer-expanded first group.
C5_CrossProduct ==
    dpc = "returned" =>
       /\ returned = WorkingSet(Top)
       /\ Top >= 1 => Len(returned) = SumOfProducts(Len(calls))
       /\ Top = 0 => returned = LoadGroup(list_of_lists[1])

\* three groups, and a pair with more than one match on both sides
C5_Witness ==
    /\ dpc = "returned"
    /\ Top = 2
    /\ Len(returned) >= 6
    /\ \E k \in 1..Len(calls) : Len(calls[k].m1) = 2 /\ Len(calls[k].m2) = 2

\* C9: load_enantiomers yields its argument first; it yields a second
\* structure exactly when b_cs_both_enantiomers is true, and that one is a copy
\* with an array of its own that holds the argument's coordinates with the
\* first one negated; the argument keeps its coordinates.
C9_Enantiomers ==
    /\ epc \notin {"idle", "start"} => (Len(yielded) >= 1 /\ yielded[1] = structure)
    /\ epc # "idle" => Value(arrays, structure) = input
    /\ Len(yielded) \in 0..2
    /\ epc = "stop" =>
          /\ Len(yielded) = IF HasKey(input.property, BOTH) /\ PropertyOf(input.property, BOTH)
                            THEN 2 ELSE 1
          /\ [k \in 1..Len(yielded) |-> Value(arrays, yielded[k])] = load_enantiomers(input)
          /\ Len(yielded) = 2 =>
                LET o == Value(arrays, yielded[2]) IN
                /\ yielded[2].xyz # structure.xyz
                /\ o.property = input.property
                /\ o.atom = input.atom
                /\ o.bond = input.bond
                /\ DOMAIN o.xyz = DOMAIN input.xyz
                /\ \A k \in DOMAIN o.xyz :
                      /\ o.xyz[k][1] = -input.xyz[k][1]
                      /\ o.xyz[k][2] = input.xyz[k][2]
                      /\ o.xyz[k][3] = input.xyz[k][3]

\* both enantiomers were yielded and they differ
C9_Witness ==
    /\ epc = "stop"
    /\ Len(yielded) = 2
    /\ Len(input.atom) = 2
    /\ \E k \in DOMAIN input.xyz : input.xyz[k][1] # 0

\* ----------------------------------------------------------------------- C11
\* structure st has, for every struct_1 bond and every key the bond holds a
\* truthy value for, a bond between the same two atoms with that value
KeepsStruct1Values(st) ==
    \A tb \in struct_1.bonds :
       \A K \in DOMAIN tb.property :
          Truthy(tb.property[K]) =>
             \E mb \in BondsBetween(st, <<1, tb.atom1>>, <<1, tb.atom2>>) :
                K \in DOMAIN mb.property /\ mb.property[K] = tb.property[K]

\* C11: in the returned structure every struct_1 bond still carries struct_1's
\* value for every annotation key, the RCA4 keys included, whose value on that
\* bond was truthy in struct_1.
C11_Struct1Precedence == Returned => KeepsStruct1Values(merge)

\* What the code does keep: struct_1's truthy values are on the bonds after the
\* reconciliation and the deletion, until add_rca4 (line 258) runs.
C11_PrecedenceBeforeRca4 == pc = "rca4" => KeepsStruct1Values(merge)

====
